---- MODULE Spec2Model ----
(***************************************************************************)
(* A model of the two figure-extraction command line programs of           *)
(* notes-to-notion:                                                        *)
(*   extract-images-openai.py  the remote pipeline (vision API boxes in    *)
(*                             percent, padded, clamped, cropped)          *)
(*   find-image.py             the local pipeline (layout model, with the  *)
(*                             OpenCV contour heuristic as its fallback)   *)
(* One behaviour of Spec is one invocation of one of the two programs.     *)
(* FnSpec applies the two pure computations (the box normalizer and the    *)
(* contour filter) to a sweep of inputs.                                   *)
(*                                                                         *)
(* Modelling notes.                                                        *)
(*  - Percentages are integers.  For integers a, b the Python expression   *)
(*    int(a * b / 100) is the quotient truncated toward zero (the float    *)
(*    quotient of two small integers is correctly rounded and never        *)
(*    crosses an integer), which is what Trunc computes.                   *)
(*  - (W*H)*0.02, (W*H)*0.8 and w/h against 0.3 and 3.0 are compared in    *)
(*    exact cross-multiplied integer arithmetic; for image-sized operands  *)
(*    the float comparisons of the code give the same answers.             *)
(*  - os.makedirs(..., exist_ok=True) is taken to succeed.                 *)
(*  - A file name {base}_figure_{k}.jpg is represented by k: the base name *)
(*    and the folder are fixed within one invocation.                      *)
(***************************************************************************)
EXTENDS Integers, Sequences, FiniteSets, TLC

VARIABLES
    prog,             \* which program runs: "remote" or "local"
    argv,             \* sys.argv[1:], a sequence of strings
    apiKey,           \* os.getenv('OPENAI_API_KEY'): "none", "empty" or "set"
    file,             \* what the input path holds: [kind, w, h]
    pc,               \* position in the program
    padding_percent,  \* the parsed third argument (remote)
    netCalls,         \* number of requests.post calls made
    response,         \* the API answer in flight: [body, figures]
    figures,          \* result.get('figures', [])
    contours,         \* the bounding rectangles of cv2.findContours' contours
    image_blocks,     \* number of "Figure" blocks the layout model found
    i,                \* loop position (0-based index of the next element)
    figure_count,     \* the contour heuristic's counter of accepted rectangles
    detected,         \* the providers that have returned their regions
    extracted_paths,  \* the list a pipeline function is building / returned
    files,            \* every cv2.imwrite that succeeded: [by, name, rect]
    raised,           \* every exception raised so far: [at, kind]
    error,            \* the exception travelling to the top-level handler
    stdout,           \* what print() wrote to standard output
    exitStatus,       \* -1 while running, then the process status
    uncaught,         \* TRUE when an exception left the program uncaught
    call,             \* FnSpec: the pure call being made
    ret               \* FnSpec: its result

vars == <<prog, argv, apiKey, file, pc, padding_percent, netCalls, response,
          figures, contours, image_blocks, i, figure_count, detected,
          extracted_paths, files, raised, error,
          stdout, exitStatus, uncaught, call, ret>>

inputs == <<prog, argv, apiKey, file>>
fn == <<call, ret>>
out == <<stdout, exitStatus, uncaught>>

\* padding_percent=8, the default of the function and of the command line.
DefaultPadding == 8

(***************************************************************************)
(* Bounds of the model.                                                    *)
(***************************************************************************)
MaxFigures == 2      \* longest figures list the provider returns
MaxContours == 2     \* longest contour list cv2.findContours returns
MaxBlocks == 2       \* most "Figure" blocks the layout model detects

(***************************************************************************)
(* Arithmetic helpers.                                                     *)
(***************************************************************************)
Max(a, b) == IF a >= b THEN a ELSE b
Min(a, b) == IF a <= b THEN a ELSE b

\* Python int(n / d) for integers n and d > 0: truncation toward zero.
Trunc(n, d) == IF n >= 0 THEN n \div d ELSE -((-n) \div d)

\* Python round(n / d) for integers n and d > 0: nearest, ties to even.
Round(n, d) ==
    LET q == n \div d
        r == n % d
    IN  IF 2 * r < d THEN q
        ELSE IF 2 * r > d THEN q + 1
        ELSE IF q % 2 = 0 THEN q ELSE q + 1

SeqsUpTo(S, n) == UNION {[1..k -> S] : k \in 0..n}

(***************************************************************************)
(* The remote pipeline's normalizer: extract_figures_from_image, the body  *)
(* of its loop, one dimension at a time.                                   *)
(***************************************************************************)
\* Bug variants of the conversions below.
ToPixelsRounded(pct, dim) == Round(pct * dim, 100)
PadOriginOutward(origin, pad) == origin + pad
ClampLenNoOrigin(len, dim, origin) == Min(len, dim)

\* int(bbox.get(...) * img_width / 100)
ToPixels(pct, dim) == Trunc(pct * dim, 100)

\* int(w * padding_percent / 100)
PaddingOf(len, percent) == Trunc(len * percent, 100)

\* x = x - padding_x
PadOrigin(origin, pad) == origin - pad

\* w = w + (padding_x * 2)
PadLen(len, pad) == len + (pad * 2)

\* x = max(0, x)
ClampOrigin(origin) == Max(0, origin)

\* w = min(w, img_width - x), x being the clamped origin
ClampLen(len, dim, origin) == Min(len, dim - origin)

\* The rectangle the loop body computes for one bbox.
Normalize(bbox, img_width, img_height, percent) ==
    LET x0 == ToPixels(bbox.x, img_width)
        y0 == ToPixels(bbox.y, img_height)
        w0 == ToPixels(bbox.width, img_width)
        h0 == ToPixels(bbox.height, img_height)
        padding_x == PaddingOf(w0, percent)
        padding_y == PaddingOf(h0, percent)
        x1 == PadOrigin(x0, padding_x)
        y1 == PadOrigin(y0, padding_y)
        w1 == PadLen(w0, padding_x)
        h1 == PadLen(h0, padding_y)
        x2 == ClampOrigin(x1)
        y2 == ClampOrigin(y1)
        w2 == ClampLen(w1, img_width, x2)
        h2 == ClampLen(h1, img_height, y2)
    IN  [x |-> x2, y |-> y2, w |-> w2, h |-> h2]

\* A size test that lets empty regions through (bug variant).
CroppableOrEmpty(r) == r.w >= 0 /\ r.h >= 0

\* if w > 0 and h > 0:
Croppable(r) == r.w > 0 /\ r.h > 0

(***************************************************************************)
(* The contour heuristic's filter: extract_images_opencv_fallback.         *)
(***************************************************************************)
AreaOkNonStrict(w, h, img_width, img_height) ==
    /\ 2 * (img_width * img_height) <= 100 * (w * h)
    /\ 10 * (w * h) <= 8 * (img_width * img_height)

\* min_area < area < max_area, min_area = W*H*0.02, max_area = W*H*0.8
AreaOk(w, h, img_width, img_height) ==
    /\ 2 * (img_width * img_height) < 100 * (w * h)
    /\ 10 * (w * h) < 8 * (img_width * img_height)

\* 0.3 < aspect_ratio < 3.0, aspect_ratio = w / h (h > 0 when the area passed)
AspectOk(w, h) == 3 * h < 10 * w /\ w < 3 * h

\* The nested ifs of the loop body.
AcceptRect(w, h, img_width, img_height) ==
    IF AreaOk(w, h, img_width, img_height) THEN AspectOk(w, h) ELSE FALSE

(***************************************************************************)
(* Inputs of one invocation.                                               *)
(***************************************************************************)
\* The third argument of the remote program, as typed.
PadArgs == {"-50", "0", "8", "20", "abc"}

\* int(sys.argv[3]): defined on the strings that spell an integer.
IntOf == ("-50" :> -50) @@ ("0" :> 0) @@ ("8" :> 8) @@ ("20" :> 20)

RemoteArgvs == {<<>>, <<"notes.jpg">>, <<"notes.jpg", "out">>}
                  \cup {<<"notes.jpg", "out", p>> : p \in PadArgs}
LocalArgvs == {<<>>, <<"notes.jpg">>, <<"notes.jpg", "out">>}

\* What the input path holds: nothing, bytes that are no image, or an image.
Images == {[kind |-> "image", w |-> 1000, h |-> 1000],
           [kind |-> "image", w |-> 100, h |-> 60]}
Files == {[kind |-> "missing", w |-> 0, h |-> 0],
          [kind |-> "corrupt", w |-> 0, h |-> 0]} \cup Images

\* One entry of the provider's figures list.  "nobbox" has no bbox key (every
\* field takes its default), "malformed" has a bbox the arithmetic rejects
\* (null, a string field, a figure that is no object).
FigureSet ==
    {[kind |-> "bbox", x |-> x, y |-> 0, width |-> w, height |-> 40] :
        x \in {-10, 50, 101}, w \in {-5, 0, 30, 120}}
    \cup {[kind |-> "bbox", x |-> 50, y |-> 90, width |-> 30, height |-> 40]}
    \cup {[kind |-> k, x |-> 0, y |-> 0, width |-> 0, height |-> 0] :
        k \in {"nobbox", "malformed"}}

\* bbox = figure.get('bbox', {}) and the four bbox.get(key, default)
BBoxOf(figure) ==
    IF figure.kind = "nobbox"
    THEN [x |-> 0, y |-> 0, width |-> 100, height |-> 100]
    ELSE [x |-> figure.x, y |-> figure.y,
          width |-> figure.width, height |-> figure.height]

\* The content of a 200 response: text json.loads rejects, a JSON value that
\* is no object, an object without "figures", "figures": null, or a list.
Responses ==
    {[body |-> b, figures |-> <<>>] : b \in {"unparsable", "notdict", "nokey", "null"}}
    \cup {[body |-> "figures", figures |-> f] : f \in SeqsUpTo(FigureSet, MaxFigures)}
NoResponse == [body |-> "none", figures |-> <<>>]

\* Bounding rectangles cv2.boundingRect can return inside the smallest image.
ContourSet ==
    {[x |-> 10, y |-> 10, w |-> 30, h |-> 20],
     [x |-> 0, y |-> 0, w |-> 95, h |-> 60],
     [x |-> 5, y |-> 5, w |-> 1, h |-> 50],
     [x |-> 0, y |-> 0, w |-> 12, h |-> 10],
     [x |-> 20, y |-> 30, w |-> 60, h |-> 20],
     [x |-> 40, y |-> 0, w |-> 40, h |-> 50]}

NoRect == [x |-> 0, y |-> 0, w |-> 0, h |-> 0]
NoCall == [op |-> "none", a |-> <<>>, img_width |-> 0, img_height |-> 0, percent |-> 0]

(***************************************************************************)
(* Standard output and exceptions.                                         *)
(***************************************************************************)
Text(line) == [kind |-> "text", success |-> FALSE, count |-> 0,
               images |-> <<>>, error |-> line]
\* json.dumps({"success": True, "extracted_count": ..., "extracted_images": ...})
SuccessJson(paths) == [kind |-> "json", success |-> TRUE, count |-> Len(paths),
                       images |-> paths, error |-> ""]
\* json.dumps({"success": False, "error": str(e)})
FailureJson(msg) == [kind |-> "json", success |-> FALSE, count |-> 0,
                     images |-> <<>>, error |-> msg]

\* The usage text of each program: one print per line.
Usage ==
    IF prog = "remote"
    THEN <<Text("Usage"), Text("Examples"), Text("example 1"),
           Text("example 2"), Text("example 3"), Text("padding_percent")>>
    ELSE <<Text("Usage")>>

\* An exception raised at `at` that reaches the top-level except clause.
Throw(at, kind, msg) ==
    /\ raised' = raised \cup {[at |-> at, kind |-> kind]}
    /\ error' = msg
    /\ pc' = "except"

\* An ImportError or AttributeError raised inside the try block of
\* extract_images_from_note: caught there, the contour heuristic takes over.
ThrowToFallback(at, kind) ==
    /\ raised' = raised \cup {[at |-> at, kind |-> kind]}
    /\ pc' = "fallback"
    /\ UNCHANGED error

(***************************************************************************)
(* Init: the program is about to run its __main__ block.                   *)
(***************************************************************************)
Idle ==
    /\ padding_percent = DefaultPadding
    /\ netCalls = 0
    /\ response = NoResponse
    /\ figures = <<>>
    /\ contours = <<>>
    /\ image_blocks = 0
    /\ i = 0
    /\ figure_count = 0
    /\ detected = {}
    /\ extracted_paths = <<>>
    /\ files = <<>>
    /\ raised = {}
    /\ error = ""
    /\ stdout = <<>>
    /\ exitStatus = -1
    /\ uncaught = FALSE

Init ==
    /\ \/ prog = "remote" /\ argv \in RemoteArgvs /\ apiKey \in {"none", "empty", "set"}
       \/ prog = "local" /\ argv \in LocalArgvs /\ apiKey = "none"
    /\ file \in Files
    /\ pc = "main"
    /\ Idle
    /\ call = NoCall
    /\ ret = <<>>

(***************************************************************************)
(* The __main__ block of both programs.                                    *)
(***************************************************************************)
\* A handler that exits without printing the failure JSON (bug variant).
ExceptSilent ==
    /\ pc = "except"
    /\ pc' = "exit"
    /\ exitStatus' = 1
    /\ UNCHANGED <<inputs, fn, padding_percent, netCalls, response, figures,
                   contours, image_blocks, i, figure_count, detected,
                   extracted_paths, files, raised, error, stdout, uncaught>>

\* len(sys.argv) < 2: usage and exit(1); otherwise the arguments are read
\* (outside the try block) and the pipeline function is entered.
Main ==
    /\ pc = "main"
    /\ IF Len(argv) < 1
       THEN /\ stdout' = stdout \o Usage
            /\ exitStatus' = 1
            /\ pc' = "exit"
            /\ UNCHANGED <<padding_percent, raised, uncaught>>
       ELSE IF prog = "remote" /\ Len(argv) > 2 /\ argv[3] \notin DOMAIN IntOf
       THEN \* int(sys.argv[3]) raises ValueError: nothing catches it
            /\ raised' = raised \cup {[at |-> "argv", kind |-> "ValueError"]}
            /\ uncaught' = TRUE
            /\ exitStatus' = 1
            /\ pc' = "exit"
            /\ UNCHANGED <<padding_percent, stdout>>
       ELSE /\ padding_percent' =
                   IF prog = "remote" /\ Len(argv) > 2 THEN IntOf[argv[3]] ELSE DefaultPadding
            /\ pc' = IF prog = "remote" THEN "credential" ELSE "import"
            /\ UNCHANGED <<raised, out>>
    /\ UNCHANGED <<inputs, fn, netCalls, response, figures, contours,
                   image_blocks, i, figure_count, detected, extracted_paths,
                   files, error>>

\* The try block's tail: the success JSON, and the program ends with status 0.
Report ==
    /\ pc = "report"
    /\ stdout' = Append(stdout, SuccessJson(extracted_paths))
    /\ exitStatus' = 0
    /\ pc' = "exit"
    /\ UNCHANGED <<inputs, fn, padding_percent, netCalls, response, figures,
                   contours, image_blocks, i, figure_count, detected,
                   extracted_paths, files, raised, error, uncaught>>

\* except Exception as e: the failure JSON, then sys.exit(1).
Except ==
    /\ pc = "except"
    /\ stdout' = Append(stdout, FailureJson(error))
    /\ exitStatus' = 1
    /\ pc' = "exit"
    /\ UNCHANGED <<inputs, fn, padding_percent, netCalls, response, figures,
                   contours, image_blocks, i, figure_count, detected,
                   extracted_paths, files, raised, error, uncaught>>

(***************************************************************************)
(* detect_figure_regions_with_openai                                       *)
(***************************************************************************)
\* A credential check that lets an absent key through (bug variant).
CheckCredentialSkipped ==
    /\ pc = "credential"
    /\ pc' = "encode"
    /\ UNCHANGED <<inputs, fn, out, padding_percent, netCalls, response,
                   figures, contours, image_blocks, i, figure_count, detected,
                   extracted_paths, files, raised, error>>

\* api_key = os.getenv(...); if not api_key: raise ValueError(...)
CheckCredential ==
    /\ pc = "credential"
    /\ IF apiKey \in {"none", "empty"}
       THEN Throw("credential", "ValueError", "OPENAI_API_KEY not found in environment")
       ELSE pc' = "encode" /\ UNCHANGED <<raised, error>>
    /\ UNCHANGED <<inputs, fn, out, padding_percent, netCalls, response,
                   figures, contours, image_blocks, i, figure_count, detected,
                   extracted_paths, files>>

\* encode_image_to_base64: open(image_path, 'rb') raises when nothing is there.
EncodeImage ==
    /\ pc = "encode"
    /\ IF file.kind = "missing"
       THEN Throw("encode", "OSError", "No such file or directory")
       ELSE pc' = "post" /\ UNCHANGED <<raised, error>>
    /\ UNCHANGED <<inputs, fn, out, padding_percent, netCalls, response,
                   figures, contours, image_blocks, i, figure_count, detected,
                   extracted_paths, files>>

\* requests.post(...), then the status check.  The transport may raise, the
\* status may be no 200, or a 200 response carries some content.
PostRequest ==
    /\ pc = "post"
    /\ netCalls' = netCalls + 1
    /\ \/ /\ Throw("post", "RequestException", "connection failed")
          /\ UNCHANGED response
       \/ /\ Throw("status", "Exception", "OpenAI API error")
          /\ UNCHANGED response
       \/ /\ response' \in Responses
          /\ pc' = "parse"
          /\ UNCHANGED <<raised, error>>
    /\ UNCHANGED <<inputs, fn, out, padding_percent, figures, contours,
                   image_blocks, i, figure_count, detected, extracted_paths,
                   files>>

\* A parser that swallows the decoding error and goes on with nothing
\* (bug variant).
ParseResponseLenient ==
    /\ pc = "parse"
    /\ pc' = "figures"
    /\ raised' = IF response.body = "unparsable"
                  THEN raised \cup {[at |-> "parse", kind |-> "JSONDecodeError"]}
                  ELSE raised
    /\ detected' = detected \cup {"remote"}
    /\ UNCHANGED <<inputs, fn, out, padding_percent, netCalls, response,
                   figures, contours, image_blocks, i, figure_count,
                   extracted_paths, files, error>>

\* response.json()[...], the fence clean-up and json.loads(content): the
\* function returns the parsed value, or raises.
ParseResponse ==
    /\ pc = "parse"
    /\ IF response.body = "unparsable"
       THEN /\ Throw("parse", "JSONDecodeError", "Expecting value")
            /\ UNCHANGED detected
       ELSE /\ detected' = detected \cup {"remote"}
            /\ pc' = "figures"
            /\ UNCHANGED <<raised, error>>
    /\ UNCHANGED <<inputs, fn, out, padding_percent, netCalls, response,
                   figures, contours, image_blocks, i, figure_count,
                   extracted_paths, files>>

(***************************************************************************)
(* extract_figures_from_image                                              *)
(***************************************************************************)
\* The index in the file name taken from the number of crops written so far
\* (bug variant).
CropIndexCompact(position, written) == written

\* f'{base_filename}_figure_{i}.jpg': i is enumerate's position.
CropIndex(position, written) == position

\* figures = result.get('figures', []); if not figures: return []
GetFigures ==
    /\ pc = "figures"
    /\ IF response.body = "notdict"
       THEN /\ Throw("figures", "AttributeError", "object has no attribute 'get'")
            /\ UNCHANGED <<figures, extracted_paths>>
       ELSE /\ figures' = response.figures
            /\ extracted_paths' = <<>>
            /\ pc' = IF response.figures = <<>> THEN "report" ELSE "imread"
            /\ UNCHANGED <<raised, error>>
    /\ UNCHANGED <<inputs, fn, out, padding_percent, netCalls, response,
                   contours, image_blocks, i, figure_count, detected, files>>

\* image = cv2.imread(image_path); if image is None: raise ValueError(...)
LoadImage ==
    /\ pc = "imread"
    /\ IF file.kind # "image"
       THEN /\ Throw("imread", "ValueError", "Could not read image")
            /\ UNCHANGED i
       ELSE /\ i' = 0
            /\ pc' = "loop"
            /\ UNCHANGED <<raised, error>>
    /\ UNCHANGED <<inputs, fn, out, padding_percent, netCalls, response,
                   figures, contours, image_blocks, figure_count, detected,
                   extracted_paths, files>>

\* One iteration of `for i, figure in enumerate(figures)`.
CropStep ==
    /\ pc = "loop"
    /\ i < Len(figures)
    /\ LET figure == figures[i + 1]
           r == Normalize(BBoxOf(figure), file.w, file.h, padding_percent)
       IN  IF figure.kind = "malformed"
           THEN /\ Throw("bbox", "TypeError", "unsupported operand")
                /\ UNCHANGED <<i, files, extracted_paths>>
           ELSE IF Croppable(r)
           THEN \/ /\ files' = Append(files,
                          [by |-> "remote",
                           name |-> CropIndex(i, Len(extracted_paths)),
                           rect |-> r])
                   /\ extracted_paths' = Append(extracted_paths,
                          CropIndex(i, Len(extracted_paths)))
                   /\ i' = i + 1
                   /\ UNCHANGED <<pc, raised, error>>
                \/ \* cv2.imwrite raises
                   /\ Throw("imwrite", "cv2.error", "could not write")
                   /\ UNCHANGED <<i, files, extracted_paths>>
           ELSE /\ i' = i + 1
                /\ UNCHANGED <<pc, raised, error, files, extracted_paths>>
    /\ UNCHANGED <<inputs, fn, out, padding_percent, netCalls, response,
                   figures, contours, image_blocks, figure_count, detected>>

\* return extracted_paths
CropReturn ==
    /\ pc = "loop"
    /\ i = Len(figures)
    /\ pc' = "report"
    /\ UNCHANGED <<inputs, fn, out, padding_percent, netCalls, response,
                   figures, contours, image_blocks, i, figure_count, detected,
                   extracted_paths, files, raised, error>>

(***************************************************************************)
(* extract_images_from_note: the layout model                              *)
(***************************************************************************)
\* import layoutparser as lp
ImportLayoutParser ==
    /\ pc = "import"
    /\ \/ pc' = "construct" /\ UNCHANGED <<raised, error>>
       \/ ThrowToFallback("import", "ImportError")
    /\ UNCHANGED <<inputs, fn, out, padding_percent, netCalls, response,
                   figures, contours, image_blocks, i, figure_count, detected,
                   extracted_paths, files>>

\* The two constructor attempts.  The first may succeed, raise AttributeError
\* (the second is tried; whatever that raises becomes an ImportError), raise
\* ImportError, or raise anything else, which leaves the function.
ConstructModel ==
    /\ pc = "construct"
    /\ \/ pc' = "lp_imread" /\ UNCHANGED <<raised, error>>
       \/ /\ raised' = raised \cup {[at |-> "construct", kind |-> "AttributeError"]}
          /\ pc' = "lp_imread"
          /\ UNCHANGED error
       \/ /\ raised' = raised \cup {[at |-> "construct", kind |-> "AttributeError"],
                                    [at |-> "construct2", kind |-> "ImportError"]}
          /\ pc' = "fallback"
          /\ UNCHANGED error
       \/ ThrowToFallback("construct", "ImportError")
       \/ Throw("construct", "RuntimeError", "model could not be built")
    /\ UNCHANGED <<inputs, fn, out, padding_percent, netCalls, response,
                   figures, contours, image_blocks, i, figure_count, detected,
                   extracted_paths, files>>

\* image = cv2.imread(input_image_path); if image is None: raise ValueError
LayoutImread ==
    /\ pc = "lp_imread"
    /\ IF file.kind # "image"
       THEN Throw("imread", "ValueError", "Could not read image")
       ELSE pc' = "detect" /\ UNCHANGED <<raised, error>>
    /\ UNCHANGED <<inputs, fn, out, padding_percent, netCalls, response,
                   figures, contours, image_blocks, i, figure_count, detected,
                   extracted_paths, files>>

\* layout = model.detect(image); image_blocks = the "Figure" blocks
LayoutDetect ==
    /\ pc = "detect"
    /\ \/ /\ image_blocks' \in 0..MaxBlocks
          /\ detected' = detected \cup {"layout"}
          /\ i' = 0
          /\ extracted_paths' = <<>>
          /\ pc' = "lp_loop"
          /\ UNCHANGED <<raised, error>>
       \/ /\ ThrowToFallback("detect", "AttributeError")
          /\ UNCHANGED <<image_blocks, detected, i, extracted_paths>>
       \/ /\ Throw("detect", "RuntimeError", "inference failed")
          /\ UNCHANGED <<image_blocks, detected, i, extracted_paths>>
    /\ UNCHANGED <<inputs, fn, out, padding_percent, netCalls, response,
                   figures, contours, figure_count, files>>

\* One iteration of `for i, block in enumerate(image_blocks)`: crop, write.
LayoutCropStep ==
    /\ pc = "lp_loop"
    /\ i < image_blocks
    /\ \/ /\ files' = Append(files, [by |-> "layout", name |-> i, rect |-> NoRect])
          /\ extracted_paths' = Append(extracted_paths, i)
          /\ i' = i + 1
          /\ UNCHANGED <<pc, raised, error>>
       \/ /\ ThrowToFallback("crop_image", "AttributeError")
          /\ UNCHANGED <<files, extracted_paths, i>>
       \/ /\ Throw("imwrite", "cv2.error", "could not write")
          /\ UNCHANGED <<files, extracted_paths, i>>
    /\ UNCHANGED <<inputs, fn, out, padding_percent, netCalls, response,
                   figures, contours, image_blocks, figure_count, detected>>

\* return extracted_paths
LayoutReturn ==
    /\ pc = "lp_loop"
    /\ i = image_blocks
    /\ pc' = "report"
    /\ UNCHANGED <<inputs, fn, out, padding_percent, netCalls, response,
                   figures, contours, image_blocks, i, figure_count, detected,
                   extracted_paths, files, raised, error>>

(***************************************************************************)
(* extract_images_opencv_fallback                                          *)
(***************************************************************************)
\* A counter that is never advanced (bug variant).
NextFigureCountStuck(count) == count

\* figure_count += 1
NextFigureCount(count) == count + 1

\* except (ImportError, AttributeError): the fallback is called; it reads the
\* image again and raises ValueError when there is none.
Fallback ==
    /\ pc = "fallback"
    /\ IF file.kind # "image"
       THEN Throw("imread", "ValueError", "Could not read image")
       ELSE pc' = "contours" /\ UNCHANGED <<raised, error>>
    /\ UNCHANGED <<inputs, fn, out, padding_percent, netCalls, response,
                   figures, contours, image_blocks, i, figure_count, detected,
                   extracted_paths, files>>

\* cvtColor, Canny, findContours; then the locals the loop starts from.
FindContours ==
    /\ pc = "contours"
    /\ contours' \in SeqsUpTo(ContourSet, MaxContours)
    /\ detected' = detected \cup {"contour"}
    /\ extracted_paths' = <<>>
    /\ figure_count' = 0
    /\ i' = 0
    /\ pc' = "ct_loop"
    /\ UNCHANGED <<inputs, fn, out, padding_percent, netCalls, response,
                   figures, image_blocks, files, raised, error>>

\* One iteration of `for contour in contours`.
ContourStep ==
    /\ pc = "ct_loop"
    /\ i < Len(contours)
    /\ LET r == contours[i + 1]
       IN  IF AcceptRect(r.w, r.h, file.w, file.h)
           THEN \/ /\ files' = Append(files,
                          [by |-> "contour", name |-> figure_count, rect |-> r])
                   /\ extracted_paths' = Append(extracted_paths, figure_count)
                   /\ figure_count' = NextFigureCount(figure_count)
                   /\ i' = i + 1
                   /\ UNCHANGED <<pc, raised, error>>
                \/ /\ Throw("imwrite", "cv2.error", "could not write")
                   /\ UNCHANGED <<files, extracted_paths, figure_count, i>>
           ELSE /\ i' = i + 1
                /\ UNCHANGED <<pc, raised, error, files, extracted_paths,
                               figure_count>>
    /\ UNCHANGED <<inputs, fn, out, padding_percent, netCalls, response,
                   figures, contours, image_blocks, detected>>

\* return extracted_paths
ContourReturn ==
    /\ pc = "ct_loop"
    /\ i = Len(contours)
    /\ pc' = "report"
    /\ UNCHANGED <<inputs, fn, out, padding_percent, netCalls, response,
                   figures, contours, image_blocks, i, figure_count, detected,
                   extracted_paths, files, raised, error>>

(***************************************************************************)
(* One invocation.                                                         *)
(***************************************************************************)
Next ==
    \/ Main
    \/ CheckCredential
    \/ EncodeImage
    \/ PostRequest
    \/ ParseResponse
    \/ GetFigures
    \/ LoadImage
    \/ CropStep
    \/ CropReturn
    \/ ImportLayoutParser
    \/ ConstructModel
    \/ LayoutImread
    \/ LayoutDetect
    \/ LayoutCropStep
    \/ LayoutReturn
    \/ Fallback
    \/ FindContours
    \/ ContourStep
    \/ ContourReturn
    \/ Report
    \/ Except

Spec == Init /\ [][Next]_vars

(***************************************************************************)
(* FnSpec: the normalizer and the contour filter applied to a sweep of     *)
(* inputs.  call.a is <<x, y, width, height>>: percentages for the         *)
(* normalizer, a pixel rectangle for the filter.                           *)
(***************************************************************************)
SweepX == {-15, 0, 7, 10, 50, 95, 100, 110}
SweepW == {-10, 0, 5, 7, 30, 100, 130}
SweepY == {-15, 0, 20, 97}
SweepH == {-10, 0, 3, 40, 100}
SweepPads == {-10, 0, 8, 50, 250}
SweepImages == {<<1000, 1000>>, <<10, 7>>, <<33, 21>>}
FilterImages == {<<100, 60>>, <<20, 10>>}

NormalizeCalls ==
    {[op |-> "normalize", a |-> <<x, y, w, h>>, img_width |-> d[1],
      img_height |-> d[2], percent |-> p] :
        x \in SweepX, y \in SweepY, w \in SweepW, h \in SweepH,
        d \in SweepImages, p \in SweepPads}

FilterCalls ==
    UNION {{[op |-> "filter", a |-> <<0, 0, w, h>>, img_width |-> d[1],
             img_height |-> d[2], percent |-> 0] :
                w \in 1..d[1], h \in 1..d[2]} : d \in FilterImages}

FnInit ==
    /\ prog = "none"
    /\ argv = <<>>
    /\ apiKey = "none"
    /\ file = [kind |-> "missing", w |-> 0, h |-> 0]
    /\ pc = "fn"
    /\ Idle
    /\ call \in NormalizeCalls \cup FilterCalls
    /\ ret = <<>>

\* The loop body's arithmetic on one bbox.
NormalizeCall ==
    /\ call.op = "normalize"
    /\ ret = <<>>
    /\ LET r == Normalize([x |-> call.a[1], y |-> call.a[2],
                           width |-> call.a[3], height |-> call.a[4]],
                          call.img_width, call.img_height, call.percent)
       IN  ret' = <<r.x, r.y, r.w, r.h>>
    /\ UNCHANGED <<inputs, pc, padding_percent, netCalls, response, figures,
                   contours, image_blocks, i, figure_count, detected,
                   extracted_paths, files, raised, error, out, call>>

\* The contour loop's test on one bounding rectangle.
FilterCall ==
    /\ call.op = "filter"
    /\ ret = <<>>
    /\ ret' = <<AcceptRect(call.a[3], call.a[4], call.img_width, call.img_height)>>
    /\ UNCHANGED <<inputs, pc, padding_percent, netCalls, response, figures,
                   contours, image_blocks, i, figure_count, detected,
                   extracted_paths, files, raised, error, out, call>>

FnNext == NormalizeCall \/ FilterCall

FnSpec == FnInit /\ [][FnNext]_vars

(***************************************************************************)
(* Claims about one invocation (checked under Spec).                       *)
(***************************************************************************)
Exited == pc = "exit"
LastOut == stdout[Len(stdout)]
JsonCount == Cardinality({k \in DOMAIN stdout : stdout[k].kind = "json"})
RemoteFiles == {k \in DOMAIN files : files[k].by = "remote"}
ContourFiles == {k \in DOMAIN files : files[k].by = "contour"}

\* The arguments let the program reach its try block.
ArgsAccepted ==
    /\ Len(argv) >= 1
    /\ ~(prog = "remote" /\ Len(argv) > 2 /\ argv[3] \notin DOMAIN IntOf)

\* C1: every region the remote pipeline crops and writes lies inside the
\* image and is not empty: x >= 0, y >= 0, x + w <= imageWidth,
\* y + h <= imageHeight, w > 0, h > 0.
C1_CropsInsideImage ==
    \A k \in RemoteFiles :
        LET r == files[k].rect
        IN  /\ r.x >= 0 /\ r.y >= 0
            /\ r.x + r.w <= file.w
            /\ r.y + r.h <= file.h
            /\ r.w > 0 /\ r.h > 0

\* C1 witness: a written crop whose box ran over the right edge of the image
\* and was cut there, away from the left edge.
C1_Witness ==
    \E k \in RemoteFiles :
        /\ files[k].rect.x > 0
        /\ files[k].rect.x + files[k].rect.w = file.w
        /\ ToPixels(figures[files[k].name + 1].x, file.w)
             + ToPixels(figures[files[k].name + 1].width, file.w) > file.w

\* C2 as stated: whatever the arguments and the outcome, a finished
\* invocation has written exactly one JSON object to standard output.
C2_ExactlyOneJsonAlways == Exited => JsonCount = 1

\* C2 as amended: never more than one JSON object is written; a finished
\* invocation has written exactly one when its arguments were accepted, and
\* none otherwise: without arguments standard output holds the usage text
\* only, and with a padding argument that is no integer it holds nothing.
C2_OneJsonWhenArgsAccepted ==
    /\ JsonCount <= 1
    /\ Exited /\ ArgsAccepted => JsonCount = 1 /\ Len(stdout) = 1
    /\ Exited /\ ~ArgsAccepted => JsonCount = 0
    /\ Exited /\ Len(argv) = 0 => stdout = Usage
    /\ Exited /\ Len(argv) > 0 /\ ~ArgsAccepted => stdout = <<>>

\* C2 witness: a finished invocation that failed inside the pipeline and
\* wrote its one JSON object.
C2_Witness ==
    /\ Exited /\ ArgsAccepted
    /\ JsonCount = 1
    /\ ~LastOut.success

\* C3: no error leaves the program uncaught; an invocation in which an error
\* reached the top level ends with the failure JSON written and status 1, and
\* the status is 0 exactly when the success JSON was written.
C3_EveryErrorCaught ==
    Exited =>
        /\ ~uncaught
        /\ (exitStatus = 1 /\ Len(argv) >= 1) =>
               /\ stdout # <<>>
               /\ LastOut.kind = "json" /\ ~LastOut.success
        /\ exitStatus = 0 <=>
               \E k \in DOMAIN stdout : stdout[k].kind = "json" /\ stdout[k].success

PositiveRegions ==
    LET Keep(k) ==
            LET r == Normalize(BBoxOf(figures[k + 1]), file.w, file.h, padding_percent)
            IN  r.w > 0 /\ r.h > 0
    IN  SelectSeq([k \in 1..Len(figures) |-> k - 1], Keep)

AcceptedRects(n) ==
    LET Keep(r) ==
            /\ 2 * file.w * file.h < 100 * r.w * r.h
            /\ 100 * r.w * r.h < 80 * file.w * file.h
            /\ 3 * r.h < 10 * r.w /\ r.w < 3 * r.h
    IN  SelectSeq(SubSeq(contours, 1, n), Keep)

StrictlyIncreasing(s) == \A a, b \in DOMAIN s : a < b => s[a] < s[b]

C6_ContourReached == Cardinality(ContourFiles) = 2

\* The provider step failed, as C9 states it: the remote call raised, or the
\* layout model's construction (both attempts) or detection raised.
ProviderRaised ==
    \E e \in raised :
        \/ e.at \in {"credential", "encode", "post", "status", "parse"}
        \/ e.at \in {"construct2", "detect"}
        \/ e.at = "construct" /\ e.kind # "AttributeError"

\* The provider step failed for good: the remote call raised, or the layout
\* model raised something other than ImportError and AttributeError.
ProviderFailed ==
    \/ \E e \in raised : e.at \in {"credential", "encode", "post", "status", "parse"}
    \/ \E e \in raised : /\ e.at \in {"construct", "detect"}
                         /\ e.kind \notin {"ImportError", "AttributeError"}

EndsInFailure == Exited => (stdout # <<>> /\ LastOut.kind = "json" /\ ~LastOut.success)

\* C9 as stated: once the provider step has raised (in the local pipeline:
\* the layout model's construction or detection), no crop is written and the
\* outcome is the failure JSON; crops are written only after a provider
\* returned.
C9_ProviderRaisedNoCrops ==
    /\ ProviderRaised => files = <<>> /\ EndsInFailure
    /\ \A k \in DOMAIN files : files[k].by \in detected

\* C9 as amended: crops are written only after the provider that found them
\* returned; when the remote provider raises, or the layout model raises an
\* error other than ImportError and AttributeError, no crop is written and
\* the outcome is the failure JSON.  (ImportError and AttributeError from the
\* layout model hand over to the contour heuristic, which may write crops
\* and report success.)
C9_ProviderFailedNoCrops ==
    /\ ProviderFailed => files = <<>> /\ EndsInFailure /\ (Exited => exitStatus = 1)
    /\ \A k \in DOMAIN files : files[k].by \in detected

\* C9 witness: a finished local run whose layout detection raised an error
\* that is no ImportError and no AttributeError.
C9_Witness ==
    /\ prog = "local" /\ Exited
    /\ [at |-> "detect", kind |-> "RuntimeError"] \in raised

\* C9, the other provider: a finished remote run whose response did not parse.
C9_RemoteReached ==
    /\ prog = "remote" /\ Exited
    /\ [at |-> "parse", kind |-> "JSONDecodeError"] \in raised

(***************************************************************************)
(* Claims about the pure computations (checked under FnSpec).              *)
(***************************************************************************)
Returned(op) == call.op = op /\ ret # <<>>

\* The normalizer as the specification words it, with Conv(n, d) the
\* conversion of n / d to an integer.
RefRect(Conv(_, _)) ==
    LET W == call.img_width
        H == call.img_height
        x == Conv(call.a[1] * W, 100)
        y == Conv(call.a[2] * H, 100)
        w == Conv(call.a[3] * W, 100)
        h == Conv(call.a[4] * H, 100)
        padX == Conv(w * call.percent, 100)
        padY == Conv(h * call.percent, 100)
        xc == IF x - padX < 0 THEN 0 ELSE x - padX
        yc == IF y - padY < 0 THEN 0 ELSE y - padY
        wc == IF w + 2 * padX < W - xc THEN w + 2 * padX ELSE W - xc
        hc == IF h + 2 * padY < H - yc THEN h + 2 * padY ELSE H - yc
    IN  <<xc, yc, wc, hc>>

\* The example of the specification: {x:10, y:20, width:30, height:40} on a
\* 1000x1000 image with padding 8.
ExampleCall == [op |-> "normalize", a |-> <<10, 20, 30, 40>>, img_width |-> 1000,
                img_height |-> 1000, percent |-> 8]

\* The four fields are percentages (0..100) and the padding is not negative.
PercentBox == (\A k \in 1..4 : call.a[k] \in 0..100) /\ call.percent >= 0

\* C7 as stated: for a box of percentages, the normalizer's rectangle is the
\* reference computed with round() for the pixel conversion and for the
\* padding.
C7_NormalizeRounds ==
    (Returned("normalize") /\ PercentBox) => ret = RefRect(Round)

\* C7 as amended: the normalizer's rectangle is the reference computed with
\* truncation toward zero (Python's int()) in place of round(), for the
\* pixel conversion and for the padding; the example gives (76, 168, 348, 464).
C7_NormalizeTruncates ==
    /\ Returned("normalize") => ret = RefRect(Trunc)
    /\ Returned("normalize") /\ call = ExampleCall => ret = <<76, 168, 348, 464>>

\* C7 witness: the example has been normalized.
C7_Witness == Returned("normalize") /\ call = ExampleCall /\ ret = <<76, 168, 348, 464>>

\* C7, the case that separates the two conversions: a result that differs
\* from the rounded reference.
C7_TruncationReached == Returned("normalize") /\ ret # RefRect(Round)

\* C8: the contour heuristic accepts a bounding rectangle (w, h) exactly when
\* 0.02 * imageArea < w*h < 0.8 * imageArea and 0.3 < w/h < 3.0, all bounds
\* strict; on a 100x60 frame 30x20 (10%, ratio 1.5) is accepted, 95x60 (95%)
\* and the 1x50 sliver are rejected.
C8_AcceptIffWithinBounds ==
    Returned("filter") =>
        LET w == call.a[3]
            h == call.a[4]
            imageArea == call.img_width * call.img_height
        IN  /\ ret[1] <=> /\ 2 * imageArea < 100 * (w * h)
                          /\ 100 * (w * h) < 80 * imageArea
                          /\ 3 * h < 10 * w
                          /\ 10 * w < 30 * h
            /\ (imageArea = 6000 /\ w = 30 /\ h = 20) => ret[1]
            /\ (imageArea = 6000 /\ w = 95 /\ h = 60) => ~ret[1]
            /\ (w = 1 /\ h = 50) => ~ret[1]

\* C8 witness: the 10% rectangle of ratio 1.5 has been accepted.
C8_Witness ==
    /\ Returned("filter") /\ call.img_width = 100 /\ call.img_height = 60
    /\ call.a[3] = 30 /\ call.a[4] = 20
    /\ ret = <<TRUE>>

\* C8, the strict bounds reached: a rectangle of exactly 2% of the frame with
\* a passing ratio has been rejected.
C8_BoundaryReached ==
    /\ Returned("filter") /\ call.img_width = 100 /\ call.img_height = 60
    /\ call.a[3] = 12 /\ call.a[4] = 10
    /\ ret = <<FALSE>>

\* C10: for padding >= 0 and a detected box of pixel width and height >= 0,
\* the cropped rectangle contains the part of the unpadded pixel box that
\* lies inside the image, and a box with a non-empty part inside the image
\* is cropped.
C10_CropContainsDetection ==
    LET W == call.img_width
        H == call.img_height
        x_px == Trunc(call.a[1] * W, 100)
        y_px == Trunc(call.a[2] * H, 100)
        w_px == Trunc(call.a[3] * W, 100)
        h_px == Trunc(call.a[4] * H, 100)
        left == IF x_px > 0 THEN x_px ELSE 0
        top == IF y_px > 0 THEN y_px ELSE 0
        right == IF x_px + w_px < W THEN x_px + w_px ELSE W
        bottom == IF y_px + h_px < H THEN y_px + h_px ELSE H
    IN  (Returned("normalize") /\ call.percent >= 0 /\ w_px >= 0 /\ h_px >= 0) =>
            /\ (ret[3] > 0 /\ ret[4] > 0) =>
                   /\ ret[1] <= left /\ ret[2] <= top
                   /\ ret[1] + ret[3] >= right
                   /\ ret[2] + ret[4] >= bottom
            /\ (left < right /\ top < bottom) => (ret[3] > 0 /\ ret[4] > 0)

\* C10 witness: a cropped box whose padding reached past the left edge and
\* the right edge of the image, so that both sides were clamped.
C10_Witness ==
    /\ Returned("normalize") /\ call.percent > 0
    /\ ret[3] > 0 /\ ret[4] > 0
    /\ Trunc(call.a[1] * call.img_width, 100) > 0
    /\ ret[1] = 0
    /\ ret[1] + ret[3] = call.img_width
    /\ Trunc(call.a[1] * call.img_width, 100)
         + Trunc(call.a[3] * call.img_width, 100) < call.img_width

====
